---- MODULE Spec2Model ----
(***************************************************************************)
(* A model of the cpu_timer accumulation / trace containers:               *)
(*   BaseTimer, AccArray, AccVec, Trace and AccTrace, over the hardware    *)
(*   tick source (TDesc<true>, a 64-bit counter).                          *)
(*                                                                         *)
(* Unsigned integers keep their machine width.  A value of type uW is the  *)
(* little-endian sequence of its W/8 bytes, so u8 is one byte, u64 eight   *)
(* bytes, u128 sixteen bytes and the unit type () the empty sequence.      *)
(* Casts (`x as uW`) truncate or zero-extend that sequence, exactly as the *)
(* machine does.                                                           *)
(***************************************************************************)
EXTENDS Integers, Sequences, FiniteSets, TLC

VARIABLES container, T, C, N, clock, ticks, cap, room, memo, probe,
          base, accs, cnts, acc_cnts, index, trace, acc,
          call, episode, folds

vars == <<container, T, C, N, clock, ticks, cap, room, memo, probe,
          base, accs, cnts, acc_cnts, index, trace, acc,
          call, episode, folds>>

----------------------------------------------------------------------------
(* Bounds of the exploration *)

\* number of times the hardware counter is seen to advance in one run
MaxTicks == 2
\* number of folds (calls that accumulate into a slot or an accumulator)
\* between two clear() calls
MaxFolds == 2
\* largest length the Vec of an AccVec grows to
MaxLen == 2
\* the same two budgets for the runs of restart chains (SpecChain)
ChainTicks == 3
ChainFolds == 3
\* the number of folds in the long runs on one slot (SpecLong): enough to take
\* a u8 count past its maximum
LongFolds == 257
\* number of calls remembered since the last start(), where they are
\* remembered
MaxEpisode == 4
\* number of start() .. push episodes in a planned run (SpecPlan)
MaxEpisodes == 3

----------------------------------------------------------------------------
(* Fixed-width unsigned arithmetic on little-endian byte sequences *)

Radix == 2 ^ 8

\* the n-byte value 0 (Default::default() of an unsigned integer)
Zero(n) == [i \in 1..n |-> 0]

\* uN::MAX
MAX(n) == [i \in 1..n |-> Radix - 1]

\* the n-byte representation of a natural number k < 2^16 (truncated to n bytes)
Lit(k, n) ==
    [i \in 1..n |-> IF i = 1 THEN k % Radix
                    ELSE IF i = 2 THEN (k \div Radix) % Radix ELSE 0]

\* `x as uN`: truncation to the low n bytes, or zero extension
cast(x, n) == [i \in 1..n |-> IF i <= Len(x) THEN x[i] ELSE 0]

\* carry into byte i+1 of a + b (a, b of equal length)
Carry(a, b) ==
    LET c[i \in 0..Len(a)] ==
            IF i = 0 THEN 0 ELSE (a[i] + b[i] + c[i - 1]) \div Radix
    IN  c

\* borrow out of byte i of a - b (a, b of equal length)
Borrow(a, b) ==
    LET c[i \in 0..Len(a)] ==
            IF i = 0 THEN 0
            ELSE IF a[i] - b[i] - c[i - 1] < 0 THEN 1 ELSE 0
    IN  c

\* uN::wrapping_add
wrapping_add(a, b) ==
    LET c == Carry(a, b)
    IN  [i \in 1..Len(a) |-> (a[i] + b[i] + c[i - 1]) % Radix]

\* uN::wrapping_sub
wrapping_sub(a, b) ==
    LET c == Borrow(a, b)
    IN  [i \in 1..Len(a) |-> (a[i] - b[i] - c[i - 1] + Radix) % Radix]

\* uN::saturating_add
saturating_add(a, b) ==
    IF Carry(a, b)[Len(a)] = 1 THEN MAX(Len(a)) ELSE wrapping_add(a, b)

----------------------------------------------------------------------------
(* traits.rs, delta.rs: the numeric capabilities *)

\* size in bytes of the tick value and of Delta (both u64)
U64 == Len(<<0, 0, 0, 0, 0, 0, 0, 0>>)

\* a variant of since that is zero when the counter reads below the mark
since_clamped(self, last) ==
    IF Borrow(self, last)[Len(self)] = 1 THEN Zero(Len(self))
    ELSE wrapping_sub(self, last)

\* impl Value for u64: since
since(self, last) == wrapping_sub(self, last)

\* impl Value for u64: since_and_update: the delta returned and the new *self
since_and_update(self, now) == [delta |-> wrapping_sub(now, self), self |-> now]

\* impl From<Delta> for uN:  v.0 as uN   (n = 0: impl From<Delta> for ())
from_Delta(v, n) == cast(v, n)

\* a variant of From<uN> for Delta that keeps the low byte only
into_Delta_low_byte(t) == cast(cast(t, 1), U64)

\* impl From<uN> for Delta:  Delta(t as u64)
into_Delta(t) == cast(t, U64)

\* Delta::add
Delta_add(self, other) == wrapping_add(self, other)

\* a variant of Delta::sat_add that wraps around
Delta_sat_add_wraps(self, other) == wrapping_add(self, other)

\* Delta::sat_add
Delta_sat_add(self, other) == saturating_add(self, other)

\* a variant of sat_add that wraps around instead of saturating
sat_add_wrapping(self, other) == wrapping_add(self, cast(other, Len(self)))

\* TraceValue::sat_add for uN:  self.saturating_add(other as uN)
sat_add(self, other) == saturating_add(self, cast(other, Len(self)))

\* a variant of sat_inc that stops one short of the maximum
sat_inc_stops_early(self) ==
    IF self \notin {MAX(Len(self)), wrapping_sub(MAX(Len(self)), Lit(1, Len(self)))}
    THEN wrapping_add(self, Lit(1, Len(self)))
    ELSE self

\* a variant of sat_inc that counts in one byte when the count type is ()
sat_inc_counts_unit(self) ==
    IF Len(self) = 0 THEN Lit(1, 1)
    ELSE IF self # MAX(Len(self)) THEN wrapping_add(self, Lit(1, Len(self)))
    ELSE self

\* a variant of sat_inc that wraps at the maximum
sat_inc_wrapping(self) == wrapping_add(self, Lit(1, Len(self)))

\* TraceCount::sat_inc for uN:  if *self != Self::MAX { wrapping_add(1) }
sat_inc(self) ==
    IF self # MAX(Len(self)) THEN wrapping_add(self, Lit(1, Len(self)))
    ELSE self

----------------------------------------------------------------------------
(* arch.rs, base.rs: the tick source and the BaseTimer *)

\* TDesc<true>::get_timer(): the hardware counter as it reads now
get_timer == clock

\* BaseTimer::start(): the new mark
BaseTimer_start == get_timer

\* BaseTimer::elapsed_delta(): Self::now().since(self.start)
elapsed_delta == since(get_timer, base)

\* a variant of elapsed that measures from the default mark
elapsed_from_default == cast(since(get_timer, Zero(U64)), U64)

\* BaseTimer::elapsed(): now().since(self.start), as u64
elapsed == cast(since(get_timer, base), U64)

\* a variant of elapsed_and_update that leaves the mark where it was
elapsed_without_update ==
    [delta |-> cast(since(get_timer, base), U64), start |-> base]

\* BaseTimer::elapsed_and_update(): self.start.since_and_update(now()):
\* the delta returned and the new mark
elapsed_and_update ==
    [delta |-> cast(since(get_timer, base), U64), start |-> get_timer]

----------------------------------------------------------------------------
(* Inputs *)

\* the amounts by which the hardware counter is seen to advance
Steps == { Lit(200, U64) }

\* readings of the hardware counter when the container is constructed:
\* shortly after reset, and just before the counter wraps
InitClocks == { Lit(5, U64), MAX(U64) }

\* byte widths of the accumulator type T (u8, u64) and count type C (u8)
ValueWidths == {1, U64}
CountWidths == {1}

\* the const generic N of AccArray, Trace and AccTrace
Sizes == {1, 3}

\* the n of AccVec::with_capacity(n); AccVec::default() is n = 0
Capacities == {0, 2}

Containers == {"AccArray", "AccVec", "Trace", "AccTrace"}

----------------------------------------------------------------------------
(* Ghost record of the calls made *)

\* one call: the method, its index argument (the index returned, for a push),
\* the counter's reading when it was made, whether it addressed a slot (hit),
\* and the value that slot held before the call (for clear(), the value the
\* first slot held; <<>> when there is none)
Rec(op, i, hit, was) ==
    [op |-> op, index |-> i, now |-> clock, hit |-> hit, was |-> was]

Overflow ==
    << [op |-> "more", index |-> 0, now |-> Zero(U64), hit |-> FALSE, was |-> <<>>] >>

\* The episode: the start() that opened it and the calls made since, kept
\* while there are at most memo of them.  <<>> before the first start(), and
\* always when no call is remembered (memo = 0).
Record(e, r) ==
    IF e = <<>> THEN <<>>
    ELSE IF e = Overflow \/ Len(e) >= memo THEN Overflow
    ELSE Append(e, r)

\* the episode that a start() opens
Opened == IF memo = 0 THEN <<>> ELSE <<Rec("start", 0, TRUE, <<>>)>>

Note(op, i, hit, was) ==
    /\ call' = Rec(op, i, hit, was)
    /\ episode' = Record(episode, Rec(op, i, hit, was))

\* the number of folds made since the container was created or last cleared
RECURSIVE SumTo(_, _)
SumTo(f, k) == IF k = 0 THEN 0 ELSE f[k] + SumTo(f, k - 1)

\* the run may go on to another fold
MayFold == SumTo(folds, Len(folds)) < cap

\* what no method of a container changes: the generics, the limits of the
\* run, and the operands of a direct call of a numeric capability
Generics == <<container, T, C, N, cap, room, memo, probe>>

----------------------------------------------------------------------------
(* The hardware counter advances between calls *)

Tick(d) ==
    /\ ticks > 0
    /\ ticks' = ticks - 1
    /\ clock' = wrapping_add(clock, d)
    /\ UNCHANGED <<Generics, base, accs, cnts, acc_cnts, index, trace,
                   acc, call, episode, folds>>

----------------------------------------------------------------------------
(* acc_vec.rs: AccArray<true, T, C, N> *)

\* AccArray::default()
AccArray_default ==
    /\ base = Zero(U64)
    /\ accs = [i \in 1..N |-> Zero(T)]
    /\ cnts = [i \in 1..N |-> Zero(C)]
    /\ folds = [i \in 1..N |-> 0]
    /\ acc_cnts = <<>> /\ index = 0 /\ trace = <<>> /\ acc = <<>>

\* AccArray::clear(): *self = zeroed()
AccArray_clear ==
    /\ container = "AccArray"
    /\ base' = Zero(U64)
    /\ accs' = [i \in 1..N |-> Zero(T)]
    /\ cnts' = [i \in 1..N |-> Zero(C)]
    /\ folds' = [i \in 1..N |-> 0]
    /\ call' = Rec("clear", 0, FALSE, accs[1])
    /\ episode' = <<>>
    /\ UNCHANGED <<Generics, clock, ticks, acc_cnts, index, trace, acc>>

\* AccArray::start()
AccArray_start ==
    /\ container = "AccArray"
    /\ base' = BaseTimer_start
    /\ call' = Rec("start", 0, TRUE, <<>>)
    /\ episode' = Opened
    /\ UNCHANGED <<Generics, clock, ticks, accs, cnts, folds,
                   acc_cnts, index, trace, acc>>

\* a variant of AccArray::acc_n that counts the fold in slot 0
AccArray_acc_n_counts_first(i) ==
    /\ container = "AccArray"
    /\ IF i < N
       THEN /\ MayFold
            /\ accs' = [accs EXCEPT ![i + 1] = sat_add(@, elapsed)]
            /\ cnts' = [cnts EXCEPT ![1] = sat_inc(@)]
            /\ folds' = [folds EXCEPT ![i + 1] = @ + 1]
       ELSE UNCHANGED <<accs, cnts, folds>>
    /\ Note("acc_n", i, i < N, IF i < N THEN accs[i + 1] ELSE <<>>)
    /\ UNCHANGED <<Generics, clock, ticks, base, acc_cnts, index, trace, acc>>

\* AccArray::acc_n(index)
AccArray_acc_n(i) ==
    /\ container = "AccArray"
    /\ IF i < N
       THEN /\ MayFold
            /\ accs' = [accs EXCEPT ![i + 1] = sat_add(@, elapsed)]
            /\ cnts' = [cnts EXCEPT ![i + 1] = sat_inc(@)]
            /\ folds' = [folds EXCEPT ![i + 1] = @ + 1]
       ELSE UNCHANGED <<accs, cnts, folds>>
    /\ Note("acc_n", i, i < N, IF i < N THEN accs[i + 1] ELSE <<>>)
    /\ UNCHANGED <<Generics, clock, ticks, base, acc_cnts, index, trace, acc>>

\* a variant of acc_n_restart that restarts the timer on any index
AccArray_acc_n_restart_always_marks(i) ==
    /\ container = "AccArray"
    /\ base' = elapsed_and_update.start
    /\ IF i < N
       THEN /\ MayFold
            /\ accs' = [accs EXCEPT
                          ![i + 1] = sat_add(@, elapsed_and_update.delta)]
            /\ cnts' = [cnts EXCEPT ![i + 1] = sat_inc(@)]
            /\ folds' = [folds EXCEPT ![i + 1] = @ + 1]
       ELSE UNCHANGED <<accs, cnts, folds>>
    /\ Note("acc_n_restart", i, i < N, IF i < N THEN accs[i + 1] ELSE <<>>)
    /\ UNCHANGED <<Generics, clock, ticks, acc_cnts, index, trace, acc>>

\* AccArray::acc_n_restart(index)
AccArray_acc_n_restart(i) ==
    /\ container = "AccArray"
    /\ IF i < N
       THEN /\ MayFold
            /\ base' = elapsed_and_update.start
            /\ accs' = [accs EXCEPT
                          ![i + 1] = sat_add(@, elapsed_and_update.delta)]
            /\ cnts' = [cnts EXCEPT ![i + 1] = sat_inc(@)]
            /\ folds' = [folds EXCEPT ![i + 1] = @ + 1]
       ELSE UNCHANGED <<base, accs, cnts, folds>>
    /\ Note("acc_n_restart", i, i < N, IF i < N THEN accs[i + 1] ELSE <<>>)
    /\ UNCHANGED <<Generics, clock, ticks, acc_cnts, index, trace, acc>>

AccArrayNext ==
    \/ AccArray_clear
    \/ AccArray_start
    \/ \E i \in 0..N : AccArray_acc_n(i)
    \/ \E i \in 0..N : AccArray_acc_n_restart(i)

----------------------------------------------------------------------------
(* acc_vec.rs: AccVec<true, T, C>; a slot (T, C) is the pair <<value, count>> *)

\* AccVec::with_capacity(N); with_capacity(0) is AccVec::default()
AccVec_with_capacity ==
    /\ base = Zero(U64)
    /\ index = 0
    /\ acc_cnts = [i \in 1..N |-> <<Zero(T), Zero(C)>>]
    /\ folds = [i \in 1..N |-> 0]
    /\ accs = <<>> /\ cnts = <<>> /\ trace = <<>> /\ acc = <<>>

\* the value held by slot i of the Vec (<<>> when there is no such slot)
Held(i) == IF i < Len(acc_cnts) THEN acc_cnts[i + 1][1] ELSE <<>>

\* a variant of AccVec::clear that leaves the cursor where it was
AccVec_clear_keeps_index ==
    /\ container = "AccVec"
    /\ acc_cnts' = <<>>
    /\ folds' = <<>>
    /\ call' = Rec("clear", 0, FALSE, Held(0))
    /\ episode' = <<>>
    /\ UNCHANGED <<Generics, clock, ticks, base, index, accs, cnts, trace, acc>>

\* AccVec::clear()
AccVec_clear ==
    /\ container = "AccVec"
    /\ index' = 0
    /\ acc_cnts' = <<>>
    /\ folds' = <<>>
    /\ call' = Rec("clear", 0, FALSE, Held(0))
    /\ episode' = <<>>
    /\ UNCHANGED <<Generics, clock, ticks, base, accs, cnts, trace, acc>>

\* a variant of AccVec::start that leaves the cursor where it was
AccVec_start_keeps_index ==
    /\ container = "AccVec"
    /\ base' = BaseTimer_start
    /\ call' = Rec("start", 0, TRUE, <<>>)
    /\ episode' = Opened
    /\ UNCHANGED <<Generics, clock, ticks, index, acc_cnts, folds,
                   accs, cnts, trace, acc>>

\* AccVec::start()
AccVec_start ==
    /\ container = "AccVec"
    /\ base' = BaseTimer_start
    /\ index' = 0
    /\ call' = Rec("start", 0, TRUE, <<>>)
    /\ episode' = Opened
    /\ UNCHANGED <<Generics, clock, ticks, acc_cnts, folds,
                   accs, cnts, trace, acc>>

\* a variant of acc_n that appends a slot when the index is out of range
AccVec_acc_n_slots_or_append(i) ==
    IF i < Len(acc_cnts)
    THEN [acc_cnts EXCEPT ![i + 1] = <<sat_add(@[1], elapsed), sat_inc(@[2])>>]
    ELSE Append(acc_cnts, <<sat_add(Zero(T), elapsed), sat_inc(Zero(C))>>)

\* the body of AccVec::acc_n(index): the new slots
AccVec_acc_n_slots(i) ==
    IF i < Len(acc_cnts)
    THEN [acc_cnts EXCEPT ![i + 1] = <<sat_add(@[1], elapsed), sat_inc(@[2])>>]
    ELSE acc_cnts

\* a variant of acc_n_restart that folds the value and forgets the count
AccVec_acc_n_restart_slots_no_count(i) ==
    IF i < Len(acc_cnts)
    THEN [acc_cnts EXCEPT
            ![i + 1] = <<sat_add(@[1], elapsed_and_update.delta), @[2]>>]
    ELSE acc_cnts

\* the body of AccVec::acc_n_restart(index): the new slots and the new mark
AccVec_acc_n_restart_slots(i) ==
    IF i < Len(acc_cnts)
    THEN [acc_cnts EXCEPT
            ![i + 1] = <<sat_add(@[1], elapsed_and_update.delta), sat_inc(@[2])>>]
    ELSE acc_cnts

\* a variant of acc_n_restart that, like acc_n, does nothing out of range
AccVec_acc_n_restart_base_in_range_only(i) ==
    IF i < Len(acc_cnts) THEN elapsed_and_update.start ELSE base

AccVec_acc_n_restart_base(i) ==
    IF i < Len(acc_cnts) THEN elapsed_and_update.start ELSE BaseTimer_start

\* the ghost fold counts after a fold into slot i (appended when i is new)
Folded(i) ==
    IF i < Len(folds) THEN [folds EXCEPT ![i + 1] = @ + 1]
    ELSE Append(folds, 1)

\* AccVec::acc_n(index)
AccVec_acc_n(i) ==
    /\ container = "AccVec"
    /\ acc_cnts' = AccVec_acc_n_slots(i)
    /\ IF i < Len(acc_cnts)
       THEN MayFold /\ folds' = Folded(i)
       ELSE UNCHANGED folds
    /\ Note("acc_n", i, i < Len(acc_cnts), Held(i))
    /\ UNCHANGED <<Generics, clock, ticks, base, index, accs, cnts, trace, acc>>

\* AccVec::acc_n_restart(index)
AccVec_acc_n_restart(i) ==
    /\ container = "AccVec"
    /\ acc_cnts' = AccVec_acc_n_restart_slots(i)
    /\ base' = AccVec_acc_n_restart_base(i)
    /\ IF i < Len(acc_cnts)
       THEN MayFold /\ folds' = Folded(i)
       ELSE UNCHANGED folds
    /\ Note("acc_n_restart", i, i < Len(acc_cnts), Held(i))
    /\ UNCHANGED <<Generics, clock, ticks, index, accs, cnts, trace, acc>>

\* a variant of acc_push that returns the cursor after the push
AccVec_acc_push_ret_new_cursor ==
    IF Len(acc_cnts) > index THEN index + 1 ELSE Len(acc_cnts) + 1

\* AccVec::acc_push(): the index returned
AccVec_acc_push_ret == IF Len(acc_cnts) > index THEN index ELSE Len(acc_cnts)

\* a variant of AccVec::acc_push that appends a slot on every call
AccVec_acc_push_always_appends ==
    /\ container = "AccVec"
    /\ MayFold
    /\ Len(acc_cnts) < room
    /\ acc_cnts' = Append(acc_cnts, <<sat_add(Zero(T), elapsed),
                                      sat_inc(Zero(C))>>)
    /\ index' = Len(acc_cnts) + 1
    /\ folds' = Append(folds, 1)
    /\ Note("acc_push", Len(acc_cnts), TRUE, <<>>)
    /\ UNCHANGED <<Generics, clock, ticks, base, accs, cnts, trace, acc>>

\* AccVec::acc_push()
AccVec_acc_push ==
    /\ container = "AccVec"
    /\ MayFold
    /\ IF Len(acc_cnts) > index
       THEN /\ acc_cnts' = AccVec_acc_n_slots(index)
            /\ index' = index + 1
       ELSE /\ Len(acc_cnts) < room
            /\ acc_cnts' = Append(acc_cnts, <<sat_add(Zero(T), elapsed),
                                              sat_inc(Zero(C))>>)
            /\ index' = Len(acc_cnts) + 1
    /\ folds' = Folded(AccVec_acc_push_ret)
    /\ Note("acc_push", AccVec_acc_push_ret, TRUE, Held(AccVec_acc_push_ret))
    /\ UNCHANGED <<Generics, clock, ticks, base, accs, cnts, trace, acc>>

\* a variant of acc_push_restart that does not advance the cursor when it
\* folds into an existing slot
AccVec_acc_push_restart_keeps_index ==
    /\ container = "AccVec"
    /\ MayFold
    /\ IF Len(acc_cnts) > index
       THEN /\ acc_cnts' = AccVec_acc_n_restart_slots(index)
            /\ base' = AccVec_acc_n_restart_base(index)
            /\ index' = index
       ELSE /\ Len(acc_cnts) < room
            /\ acc_cnts' = Append(acc_cnts,
                                  <<sat_add(Zero(T), elapsed_and_update.delta),
                                    sat_inc(Zero(C))>>)
            /\ base' = elapsed_and_update.start
            /\ index' = Len(acc_cnts) + 1
    /\ folds' = Folded(AccVec_acc_push_ret)
    /\ Note("acc_push_restart", AccVec_acc_push_ret, TRUE, Held(AccVec_acc_push_ret))
    /\ UNCHANGED <<Generics, clock, ticks, accs, cnts, trace, acc>>

\* AccVec::acc_push_restart()
AccVec_acc_push_restart ==
    /\ container = "AccVec"
    /\ MayFold
    /\ IF Len(acc_cnts) > index
       THEN /\ acc_cnts' = AccVec_acc_n_restart_slots(index)
            /\ base' = AccVec_acc_n_restart_base(index)
            /\ index' = index + 1
       ELSE /\ Len(acc_cnts) < room
            /\ acc_cnts' = Append(acc_cnts,
                                  <<sat_add(Zero(T), elapsed_and_update.delta),
                                    sat_inc(Zero(C))>>)
            /\ base' = elapsed_and_update.start
            /\ index' = Len(acc_cnts) + 1
    /\ folds' = Folded(AccVec_acc_push_ret)
    /\ Note("acc_push_restart", AccVec_acc_push_ret, TRUE, Held(AccVec_acc_push_ret))
    /\ UNCHANGED <<Generics, clock, ticks, accs, cnts, trace, acc>>

\* AccVec::all_acc_cnts()
all_acc_cnts == acc_cnts

\* AccVec::acc_cnts(): &self.acc_cnts[0..self.index]
AccVec_acc_cnts == SubSeq(acc_cnts, 1, index)

AccVecNext ==
    \/ AccVec_clear
    \/ AccVec_start
    \/ \E i \in 0..Len(acc_cnts) : AccVec_acc_n(i)
    \/ \E i \in 0..Len(acc_cnts) : AccVec_acc_n_restart(i)
    \/ AccVec_acc_push
    \/ AccVec_acc_push_restart

----------------------------------------------------------------------------
(* trace.rs: Trace<true, T, N> and AccTrace<true, T, N> *)

\* Trace::default() / AccTrace::default()
Trace_default ==
    /\ base = Zero(U64)
    /\ index = 0
    /\ trace = [i \in 1..N |-> Zero(T)]
    /\ acc = IF container = "AccTrace" THEN [i \in 1..N |-> Zero(T)] ELSE <<>>
    /\ folds = IF container = "AccTrace" THEN <<0>> ELSE <<>>
    /\ accs = <<>> /\ cnts = <<>> /\ acc_cnts = <<>>

\* Trace::clear(): *self = zeroed()
Trace_clear ==
    /\ base' = Zero(U64)
    /\ index' = 0
    /\ trace' = [i \in 1..N |-> Zero(T)]

\* a variant of Trace::start that resets the trace array as well
Trace_start_clears ==
    /\ base' = BaseTimer_start
    /\ index' = 0
    /\ trace' = [i \in 1..N |-> Zero(T)]

\* Trace::start()
Trace_start ==
    /\ base' = BaseTimer_start
    /\ index' = 0
    /\ UNCHANGED trace

\* a variant of Trace::next that stores nothing until start() has been
\* called (the mark is still the default)
Trace_next_needs_start ==
    IF index < N /\ base # Zero(U64)
    THEN /\ base' = elapsed_and_update.start
         /\ trace' = [trace EXCEPT
                        ![index + 1] = from_Delta(elapsed_and_update.delta, T)]
         /\ index' = index + 1
    ELSE UNCHANGED <<base, trace, index>>

\* a variant of Trace::next that still restarts the timer when the trace is
\* full
Trace_next_marks_when_full ==
    IF index < N
    THEN /\ base' = elapsed_and_update.start
         /\ trace' = [trace EXCEPT
                        ![index + 1] = from_Delta(elapsed_and_update.delta, T)]
         /\ index' = index + 1
    ELSE base' = elapsed_and_update.start /\ UNCHANGED <<trace, index>>

\* a variant of Trace::next that measures every step from the start()
Trace_next_cumulative ==
    IF index < N
    THEN /\ base' = base
         /\ trace' = [trace EXCEPT ![index + 1] = from_Delta(elapsed, T)]
         /\ index' = index + 1
    ELSE UNCHANGED <<base, trace, index>>

\* Trace::next()
Trace_next ==
    IF index < N
    THEN /\ base' = elapsed_and_update.start
         /\ trace' = [trace EXCEPT
                        ![index + 1] = from_Delta(elapsed_and_update.delta, T)]
         /\ index' = index + 1
    ELSE UNCHANGED <<base, trace, index>>

\* Trace::trace()
Trace_trace == trace

\* the entry the next() call is about to overwrite (<<>> when the trace is full)
Stored == IF index < N THEN trace[index + 1] ELSE <<>>

TraceRest == <<Generics, clock, ticks, accs, cnts, acc_cnts, folds>>

TraceNext ==
    /\ container = "Trace"
    /\ \/ Trace_clear /\ call' = Rec("clear", 0, FALSE, trace[1]) /\ episode' = <<>>
       \/ /\ Trace_start
          /\ call' = Rec("start", 0, TRUE, <<>>)
          /\ episode' = Opened
       \/ Trace_next /\ Note("next", index, index < N, Stored)
    /\ UNCHANGED <<TraceRest, acc>>

\* a variant of AccTrace::clear that clears the embedded trace only
AccTrace_clear_trace_only ==
    /\ Trace_clear
    /\ UNCHANGED acc

\* AccTrace::clear()
AccTrace_clear ==
    /\ Trace_clear
    /\ acc' = [i \in 1..N |-> Zero(T)]

\* AccTrace::start()
AccTrace_start == Trace_start /\ UNCHANGED acc

\* a variant of AccTrace::next that folds the step it stores into the
\* accumulator as well
AccTrace_next_folds ==
    /\ Trace_next
    /\ acc' = IF index < N
              THEN [acc EXCEPT ![index + 1] =
                      from_Delta(Delta_add(into_Delta(@),
                                           elapsed_and_update.delta), T)]
              ELSE acc

\* AccTrace::next()
AccTrace_next == Trace_next /\ UNCHANGED acc

\* a variant of AccTrace::acc that folds only the steps stored since the
\* last start()
AccTrace_acc_to_cursor ==
    /\ acc' = [i \in 1..N |->
                 IF i <= index
                 THEN from_Delta(Delta_add(into_Delta(acc[i]),
                                           into_Delta(trace[i])), T)
                 ELSE acc[i]]
    /\ UNCHANGED <<base, index, trace>>

\* AccTrace::acc()
AccTrace_acc ==
    /\ acc' = [i \in 1..N |->
                 from_Delta(Delta_add(into_Delta(acc[i]), into_Delta(trace[i])), T)]
    /\ UNCHANGED <<base, index, trace>>

\* AccTrace::last_trace(), AccTrace::acc_trace()
last_trace == Trace_trace
acc_trace == acc

AccTraceNext ==
    /\ container = "AccTrace"
    /\ \/ /\ AccTrace_clear
          /\ call' = Rec("clear", 0, FALSE, acc[1])
          /\ episode' = <<>>
          /\ folds' = <<0>>
       \/ /\ AccTrace_start
          /\ call' = Rec("start", 0, TRUE, <<>>)
          /\ episode' = Opened
          /\ UNCHANGED folds
       \/ AccTrace_next /\ Note("next", index, index < N, Stored) /\ UNCHANGED folds
       \/ /\ MayFold
          /\ AccTrace_acc
          /\ call' = Rec("acc", 0, TRUE, <<>>)
          /\ folds' = <<folds[1] + 1>>
          /\ UNCHANGED episode
    /\ UNCHANGED <<Generics, clock, ticks, accs, cnts, acc_cnts>>

----------------------------------------------------------------------------
(* timers.rs: AccTimer<true>.  Its mark is base; its field delta is held in
   trace[1] and its field acc in acc[1] (both are a Delta). *)

\* AccTimer::default()
AccTimer_default ==
    /\ base = Zero(U64)
    /\ trace = <<Zero(U64)>>
    /\ acc = <<Zero(U64)>>
    /\ folds = <<0>>
    /\ index = 0
    /\ accs = <<>> /\ cnts = <<>> /\ acc_cnts = <<>>

\* the calls made on the timer since it was created or cleared, while they
\* are remembered
Logged(r) ==
    IF episode = Overflow \/ Len(episode) >= memo THEN Overflow
    ELSE Append(episode, r)

\* AccTimer::clear(): *self = Self::default()
AccTimer_clear ==
    /\ container = "AccTimer"
    /\ base' = Zero(U64)
    /\ trace' = <<Zero(U64)>>
    /\ acc' = <<Zero(U64)>>
    /\ folds' = <<0>>
    /\ call' = Rec("clear", 0, FALSE, acc[1])
    /\ episode' = <<Rec("clear", 0, FALSE, acc[1])>>
    /\ UNCHANGED <<Generics, clock, ticks, accs, cnts, acc_cnts, index>>

\* AccTimer::start()
AccTimer_start ==
    /\ container = "AccTimer"
    /\ base' = BaseTimer_start
    /\ call' = Rec("start", 0, TRUE, <<>>)
    /\ episode' = Logged(Rec("start", 0, TRUE, <<>>))
    /\ UNCHANGED <<Generics, clock, ticks, accs, cnts, acc_cnts, index,
                   trace, acc, folds>>

\* AccTimer::stop()
AccTimer_stop ==
    /\ container = "AccTimer"
    /\ MayFold
    /\ trace' = <<elapsed_delta>>
    /\ acc' = <<Delta_sat_add(acc[1], elapsed_delta)>>
    /\ folds' = <<folds[1] + 1>>
    /\ call' = Rec("stop", 0, TRUE, trace[1])
    /\ episode' = Logged(Rec("stop", 0, TRUE, trace[1]))
    /\ UNCHANGED <<Generics, clock, ticks, base, accs, cnts, acc_cnts, index>>

\* AccTimer::last_delta(), AccTimer::acc_value(): Delta into u64
last_delta == cast(trace[1], U64)
acc_value == cast(acc[1], U64)

----------------------------------------------------------------------------
(* Specification *)

\* the container as constructed, for the generics chosen
Constructed ==
    /\ call = Rec("new", 0, FALSE, <<>>)
    /\ episode = <<>>
    /\ CASE container = "AccArray" -> AccArray_default
         [] container = "AccVec"   -> AccVec_with_capacity
         [] OTHER                  -> Trace_default

Init ==
    /\ container \in Containers
    /\ T \in ValueWidths
    /\ C \in IF container \in {"AccArray", "AccVec"} THEN CountWidths ELSE {0}
    /\ N \in IF container = "AccVec" THEN Capacities ELSE Sizes
    /\ clock \in InitClocks
    /\ ticks = MaxTicks
    /\ cap = MaxFolds
    /\ room = MaxLen
    /\ memo = 0
    /\ probe = <<>>
    /\ Constructed

Next ==
    \/ \E d \in Steps : Tick(d)
    \/ AccArrayNext
    \/ AccVecNext
    \/ TraceNext
    \/ AccTraceNext

Spec == Init /\ [][Next]_vars

\* Long runs on a one-slot AccArray and a one-slot AccVec that does not grow
\* beyond its capacity, with the narrowest value and count types; the counter
\* is read just before it wraps and is not seen to advance (counts do not
\* depend on the time that passes)
InitLong ==
    /\ container \in {"AccArray", "AccVec"}
    /\ T = 1
    /\ C = 1
    /\ N = 1
    /\ clock = MAX(U64)
    /\ ticks = 0
    /\ cap = LongFolds
    /\ room = N
    /\ memo = 0
    /\ probe = <<>>
    /\ Constructed

NextLong ==
    \/ AccArrayNext
    \/ AccVecNext

SpecLong == InitLong /\ [][NextLong]_vars

\* Direct calls of TraceValue::sat_add(self, other) for every unsigned width
AllWidths == {1, 2, 4, U64, 2 * U64}

\* values of an n-byte accumulator: zero, small, near and at the maximum
Values(n) ==
    { Zero(n), Lit(1, n), Lit(200, n), wrapping_sub(MAX(n), Lit(56, n)),
      wrapping_sub(MAX(n), Lit(1, n)), MAX(n) }

\* raw 64-bit tick deltas: small ones, 2^8, 2^16, 2^32 and their neighbours,
\* 2^63 and the maximum
Deltas ==
    { Zero(U64), Lit(1, U64), Lit(55, U64), Lit(56, U64), Lit(57, U64),
      Lit(255, U64), Lit(256, U64), Lit(405, U64), Lit(65535, U64),
      <<0, 0, 1, 0, 0, 0, 0, 0>>, <<255, 255, 255, 255, 0, 0, 0, 0>>,
      <<0, 0, 0, 0, 1, 0, 0, 0>>, <<0, 0, 0, 0, 0, 0, 0, 128>>, MAX(U64) }

InitValue ==
    /\ container = "TraceValue"
    /\ T \in AllWidths
    /\ C = 0 /\ N = 0
    /\ clock = Zero(U64) /\ base = Zero(U64)
    /\ ticks = 0 /\ cap = 0 /\ room = 0 /\ memo = 0
    /\ probe \in [self : Values(T), other : Deltas, ret : {<<>>}, done : {FALSE}]
    /\ accs = <<>> /\ cnts = <<>> /\ acc_cnts = <<>> /\ index = 0
    /\ trace = <<>> /\ acc = <<>> /\ folds = <<>>
    /\ call = Rec("new", 0, FALSE, <<>>)
    /\ episode = <<>>

\* let ret = self.sat_add(other)
Call_sat_add ==
    /\ container = "TraceValue"
    /\ ~probe.done
    /\ probe' = [probe EXCEPT !.ret = sat_add(probe.self, probe.other),
                              !.done = TRUE]
    /\ UNCHANGED <<container, T, C, N, cap, room, memo, clock, ticks, base, accs,
                   cnts, acc_cnts, index, trace, acc, call, episode, folds>>

SpecValue == InitValue /\ [][Call_sat_add]_vars

\* Restart chains on a 3-slot AccArray: start() and in-range
\* acc_n_restart(index) only
InitChain ==
    /\ container = "AccArray"
    /\ T \in ValueWidths
    /\ C \in CountWidths
    /\ N = 3
    /\ clock \in InitClocks
    /\ ticks = ChainTicks
    /\ cap = ChainFolds
    /\ room = 0
    /\ memo = MaxEpisode
    /\ probe = <<>>
    /\ Constructed

NextChain ==
    \/ \E d \in Steps : Tick(d)
    \/ AccArray_start
    \/ \E i \in 0..(N - 1) : AccArray_acc_n_restart(i)

SpecChain == InitChain /\ [][NextChain]_vars

\* Restarts on an AccVec of capacity 1 that does not grow beyond it: every
\* method of AccVec, with the calls since the last start() remembered; the
\* counter is read just before it wraps
InitRestart ==
    /\ container = "AccVec"
    /\ T \in ValueWidths
    /\ C \in CountWidths
    /\ N = 1
    /\ clock = MAX(U64)
    /\ ticks = MaxTicks
    /\ cap = MaxFolds
    /\ room = N
    /\ memo = MaxEpisode
    /\ probe = <<>>
    /\ Constructed

NextRestart ==
    \/ \E d \in Steps : Tick(d)
    \/ AccVecNext

SpecRestart == InitRestart /\ [][NextRestart]_vars

\* Episodes of pushes on an AccVec that grows: every method of AccVec, with
\* the calls since the last start() remembered
InitPush ==
    /\ container = "AccVec"
    /\ T \in ValueWidths
    /\ C \in CountWidths
    /\ N \in Capacities
    /\ clock = MAX(U64)
    /\ ticks = MaxTicks
    /\ cap = ChainFolds + MaxFolds
    /\ room = MaxLen + 1
    /\ memo = MaxEpisode
    /\ probe = <<>>
    /\ Constructed

NextPush ==
    \/ \E d \in Steps : Tick(d)
    \/ AccVec_clear
    \/ AccVec_start
    \/ AccVec_acc_push
    \/ AccVec_acc_push_restart

SpecPush == InitPush /\ [][NextPush]_vars

\* The same with in-range acc_n and acc_n_restart calls mixed in, in shorter
\* runs
InitMixed ==
    /\ container = "AccVec"
    /\ T \in ValueWidths
    /\ C \in CountWidths
    /\ N \in Capacities
    /\ clock = MAX(U64)
    /\ ticks = MaxTicks
    /\ cap = MaxFolds
    /\ room = MaxLen
    /\ memo = MaxEpisode
    /\ probe = <<>>
    /\ Constructed

NextMixed ==
    \/ NextPush
    \/ \E i \in 0..(Len(acc_cnts) - 1) : AccVec_acc_n(i)
    \/ \E i \in 0..(Len(acc_cnts) - 1) : AccVec_acc_n_restart(i)

SpecMixed == InitMixed /\ [][NextMixed]_vars

\* Planned runs on an AccVec that starts empty, as in the example "accumulate
\* times over many executions": for each episode e of the plan, start() and
\* then plan[e] calls of acc_push_restart(), with time passing in between
Plans == UNION { [1..n -> 1..MaxLen] : n \in 1..MaxEpisodes }

\* the pushes of the first k episodes of the plan
RECURSIVE PlanSum(_)
PlanSum(k) == IF k = 0 THEN 0 ELSE probe[k] + PlanSum(k - 1)

\* the pushes made so far
Pushed == SumTo(folds, Len(folds))

InitPlan ==
    /\ container = "AccVec"
    /\ T \in ValueWidths
    /\ C \in CountWidths
    /\ N = 0
    /\ clock \in InitClocks
    /\ ticks = MaxTicks
    /\ cap = MaxEpisodes * MaxLen
    /\ room = MaxLen
    /\ memo = 0
    /\ probe \in Plans
    /\ Constructed

\* t.start(): the episodes so far are complete and the plan has another
Plan_start ==
    /\ call.op # "start"
    /\ \E k \in 0..(Len(probe) - 1) : Pushed = PlanSum(k)
    /\ AccVec_start

\* t.acc_push_restart(): the episode under way has pushes left
Plan_acc_push_restart ==
    /\ \/ call.op = "start"
       \/ \E k \in 1..Len(probe) : PlanSum(k - 1) < Pushed /\ Pushed < PlanSum(k)
    /\ AccVec_acc_push_restart

NextPlan ==
    \/ \E d \in Steps : Tick(d)
    \/ Plan_start
    \/ Plan_acc_push_restart

SpecPlan == InitPlan /\ [][NextPlan]_vars

\* Episodes of steps on a 3-step Trace: every method of Trace, with the calls
\* since the last start() remembered
InitSteps ==
    /\ container = "Trace"
    /\ T \in ValueWidths
    /\ C = 0
    /\ N = 3
    /\ clock \in InitClocks
    /\ ticks = ChainTicks
    /\ cap = 0
    /\ room = 0
    /\ memo = MaxEpisode
    /\ probe = <<>>
    /\ Constructed

NextSteps ==
    \/ \E d \in Steps : Tick(d)
    \/ TraceNext

SpecSteps == InitSteps /\ [][NextSteps]_vars

----------------------------------------------------------------------------
(* Two copies of a started AccArray or AccVec: acc_n on one, acc_n_restart on
   the other, at the same reading of the counter.  The copy is taken with
   Clone; probe holds the copy, and then the first copy after its call. *)

\* the fields of the container (with the ghosts of the run)
Clone ==
    [base |-> base, accs |-> accs, cnts |-> cnts, acc_cnts |-> acc_cnts,
     index |-> index, folds |-> folds, call |-> call, episode |-> episode]

\* the number of slots an index can address
Live == IF container = "AccArray" THEN N ELSE Len(acc_cnts)

InitPair ==
    /\ container \in {"AccArray", "AccVec"}
    /\ T \in ValueWidths
    /\ C \in CountWidths
    /\ N \in IF container = "AccVec" THEN Capacities ELSE Sizes
    /\ clock \in InitClocks
    /\ ticks = MaxTicks
    /\ cap = MaxFolds
    /\ room = MaxLen
    /\ memo = 0
    /\ probe = <<>>
    /\ Constructed

\* let copy = container.clone(), taken of a container just started
Pair_clone ==
    /\ probe = <<>>
    /\ call.op = "start"
    /\ Live > 0
    /\ MayFold
    /\ probe' = <<Clone>>
    /\ UNCHANGED <<container, T, C, N, cap, room, memo, clock, ticks, base,
                   accs, cnts, acc_cnts, index, trace, acc, call, episode,
                   folds>>

\* container.acc_n(i), for an index in range
Pair_acc_n ==
    /\ Len(probe) = 1
    /\ call.op = "start"
    /\ \E i \in 0..(Live - 1) : AccArray_acc_n(i) \/ AccVec_acc_n(i)

\* turn to the copy: the container as it was when cloned; the first one is
\* kept as it is after its call
Pair_turn ==
    /\ Len(probe) = 1
    /\ call.op = "acc_n"
    /\ probe' = <<probe[1], Clone>>
    /\ base' = probe[1].base
    /\ accs' = probe[1].accs
    /\ cnts' = probe[1].cnts
    /\ acc_cnts' = probe[1].acc_cnts
    /\ index' = probe[1].index
    /\ folds' = probe[1].folds
    /\ call' = probe[1].call
    /\ episode' = probe[1].episode
    /\ UNCHANGED <<container, T, C, N, cap, room, memo, clock, ticks, trace, acc>>

\* copy.acc_n_restart(i), for the same index
Pair_acc_n_restart ==
    /\ Len(probe) = 2
    /\ call.op = "start"
    /\ \/ AccArray_acc_n_restart(probe[2].call.index)
       \/ AccVec_acc_n_restart(probe[2].call.index)

NextPair ==
    \/ probe = <<>> /\ \E d \in Steps : Tick(d)
    \/ probe = <<>> /\ AccArray_start
    \/ probe = <<>> /\ \E i \in 0..(N - 1) : AccArray_acc_n_restart(i)
    \/ probe = <<>> /\ AccVec_start
    \/ probe = <<>> /\ AccVec_acc_push_restart
    \/ Pair_clone
    \/ Pair_acc_n
    \/ Pair_turn
    \/ Pair_acc_n_restart

SpecPair == InitPair /\ [][NextPair]_vars

----------------------------------------------------------------------------
(* Two containers run side by side on the same calls and the same readings
   of the counter.  One of them is held by the variables and the other is
   kept in probe; the one that makes each call first is followed by the
   other making the same call, before the counter is read to advance. *)

\* the container that is not the one held by the variables; turn tells which
\* of the two is held by the variables
Twin(turn) ==
    [turn |-> turn, container |-> container, T |-> T, C |-> C, state |-> Clone]

\* the two containers change places
Twin_swap(turn, mark) ==
    /\ probe' = <<Twin(turn)>>
    /\ container' = probe[1].container
    /\ T' = probe[1].T
    /\ C' = probe[1].C
    /\ base' = probe[1].state.base
    /\ accs' = probe[1].state.accs
    /\ cnts' = probe[1].state.cnts
    /\ acc_cnts' = probe[1].state.acc_cnts
    /\ index' = probe[1].state.index
    /\ folds' = probe[1].state.folds
    /\ episode' = probe[1].state.episode
    /\ call' = Rec(mark, 0, FALSE, <<>>)
    /\ UNCHANGED <<N, cap, room, memo, clock, ticks, trace, acc>>

\* the first container may make a call (the second has made the last one)
Twin_ready ==
    /\ probe # <<>>
    /\ probe[1].turn = "first"
    /\ call.op \in {"new", "sync"}

\* the first container has made its call: the second takes its turn
Twin_turn ==
    /\ probe # <<>>
    /\ probe[1].turn = "first"
    /\ call.op \notin {"new", "sync"}
    /\ Twin_swap("second", "turn")

\* the second container is to make the call the first has made
Twin_follows(op) ==
    /\ probe # <<>>
    /\ probe[1].turn = "second"
    /\ call.op = "turn"
    /\ probe[1].state.call.op = op

\* both have made the call
Twin_done ==
    /\ probe # <<>>
    /\ probe[1].turn = "second"
    /\ call.op # "turn"

\* back to the first container
Twin_back == Twin_done /\ Twin_swap("first", "sync")

\* the slots of the container held by the variables
Twin_slots ==
    IF container = "AccArray" THEN [i \in 1..N |-> <<accs[i], cnts[i]>>]
    ELSE acc_cnts

\* AccArray::<true, (), (), N>::default() or AccVec::<true, (), ()>::
\* with_capacity(N), beside a container of integers made the same way
InitUnit ==
    /\ container \in {"AccArray", "AccVec"}
    /\ T \in ValueWidths
    /\ C \in CountWidths
    /\ N \in IF container = "AccVec" THEN Capacities ELSE Sizes
    /\ clock \in InitClocks
    /\ ticks = MaxTicks
    /\ cap = MaxFolds
    /\ room = MaxLen
    /\ memo = 0
    /\ probe = <<>>
    /\ Constructed

Unit_new ==
    /\ probe = <<>>
    /\ probe' = <<Twin("first")>>
    /\ T' = 0
    /\ C' = 0
    /\ base' = Zero(U64)
    /\ index' = 0
    /\ accs' = [i \in 1..Len(accs) |-> Zero(0)]
    /\ cnts' = [i \in 1..Len(cnts) |-> Zero(0)]
    /\ acc_cnts' = [i \in 1..Len(acc_cnts) |-> <<Zero(0), Zero(0)>>]
    /\ UNCHANGED <<container, N, cap, room, memo, clock, ticks, trace, acc,
                   call, episode, folds>>

NextUnit ==
    \/ Unit_new
    \/ Twin_ready /\ \E d \in Steps : Tick(d)
    \/ Twin_ready /\ AccArrayNext
    \/ Twin_ready /\ AccVecNext
    \/ Twin_turn
    \/ Twin_follows("clear") /\ (AccArray_clear \/ AccVec_clear)
    \/ Twin_follows("start") /\ (AccArray_start \/ AccVec_start)
    \/ /\ Twin_follows("acc_n")
       /\ \/ AccArray_acc_n(probe[1].state.call.index)
          \/ AccVec_acc_n(probe[1].state.call.index)
    \/ /\ Twin_follows("acc_n_restart")
       /\ \/ AccArray_acc_n_restart(probe[1].state.call.index)
          \/ AccVec_acc_n_restart(probe[1].state.call.index)
    \/ Twin_follows("acc_push") /\ AccVec_acc_push
    \/ Twin_follows("acc_push_restart") /\ AccVec_acc_push_restart
    \/ Twin_back

SpecUnit == InitUnit /\ [][NextUnit]_vars

\* An AccArray of N slots beside an AccVec made by with_capacity(N), of the
\* same value and count types, on calls both accept: start, and acc_n and
\* acc_n_restart with an index below N
InitKinds ==
    /\ container = "AccArray"
    /\ T \in ValueWidths
    /\ C \in CountWidths
    /\ N \in Sizes
    /\ clock \in InitClocks
    /\ ticks = MaxTicks
    /\ cap = MaxFolds
    /\ room = MaxLen
    /\ memo = 0
    /\ probe = <<>>
    /\ Constructed

\* AccVec::with_capacity(N), beside the array
Kinds_new ==
    /\ probe = <<>>
    /\ probe' = <<Twin("first")>>
    /\ container' = "AccVec"
    /\ base' = Zero(U64)
    /\ index' = 0
    /\ acc_cnts' = [i \in 1..N |-> <<Zero(T), Zero(C)>>]
    /\ folds' = [i \in 1..N |-> 0]
    /\ accs' = <<>>
    /\ cnts' = <<>>
    /\ UNCHANGED <<T, C, N, cap, room, memo, clock, ticks, trace, acc,
                   call, episode>>

NextKinds ==
    \/ Kinds_new
    \/ Twin_ready /\ \E d \in Steps : Tick(d)
    \/ Twin_ready /\ AccVec_start
    \/ Twin_ready /\ \E i \in 0..(N - 1) : AccVec_acc_n(i)
    \/ Twin_ready /\ \E i \in 0..(N - 1) : AccVec_acc_n_restart(i)
    \/ Twin_turn
    \/ Twin_follows("start") /\ AccArray_start
    \/ Twin_follows("acc_n") /\ AccArray_acc_n(probe[1].state.call.index)
    \/ /\ Twin_follows("acc_n_restart")
       /\ AccArray_acc_n_restart(probe[1].state.call.index)
    \/ Twin_back

SpecKinds == InitKinds /\ [][NextKinds]_vars

\* An AccTimer: start(), stop() and clear() in any order, the counter first
\* read low or just before it wraps
InitTimer ==
    /\ container = "AccTimer"
    /\ T = U64
    /\ C = 0
    /\ N = 1
    /\ clock \in InitClocks
    /\ ticks = ChainTicks
    /\ cap = ChainFolds
    /\ room = 0
    /\ memo = MaxEpisode
    /\ probe = <<>>
    /\ call = Rec("new", 0, FALSE, <<>>)
    /\ episode = <<Rec("new", 0, FALSE, <<>>)>>
    /\ AccTimer_default

NextTimer ==
    \/ \E d \in Steps : Tick(d)
    \/ AccTimer_clear
    \/ AccTimer_start
    \/ AccTimer_stop

SpecTimer == InitTimer /\ [][NextTimer]_vars

\* Conversions between Delta and the accumulator type T, called directly on
\* chosen operands (container = "Delta"), and as Trace::next makes them when
\* it stores a step (container = "Trace")
InitConvert ==
    \/ /\ container = "Delta"
       /\ T \in AllWidths
       /\ C = 0 /\ N = 0
       /\ clock = Zero(U64) /\ base = Zero(U64)
       /\ ticks = 0 /\ cap = 0 /\ room = 0 /\ memo = 0
       /\ probe \in [delta : Deltas, value : Values(T),
                     there : {<<>>}, back : {<<>>}, done : {"no"}]
       /\ accs = <<>> /\ cnts = <<>> /\ acc_cnts = <<>> /\ index = 0
       /\ trace = <<>> /\ acc = <<>> /\ folds = <<>>
       /\ call = Rec("new", 0, FALSE, <<>>)
       /\ episode = <<>>
    \/ /\ container = "Trace"
       /\ T \in ValueWidths
       /\ C = 0
       /\ N \in Sizes
       /\ clock \in InitClocks
       /\ ticks = MaxTicks
       /\ cap = 0 /\ room = 0 /\ memo = 0
       /\ probe = <<>>
       /\ Constructed

\* let t: T = delta.into(); let d: Delta = t.into()
Call_Delta_T_Delta ==
    /\ container = "Delta"
    /\ probe.done = "no"
    /\ probe' = [probe EXCEPT
                   !.there = from_Delta(probe.delta, T),
                   !.back = into_Delta(from_Delta(probe.delta, T)),
                   !.done = "Delta"]
    /\ UNCHANGED <<container, T, C, N, cap, room, memo, clock, ticks, base, accs,
                   cnts, acc_cnts, index, trace, acc, call, episode, folds>>

\* let d: Delta = value.into(); let t: T = d.into()
Call_T_Delta_T ==
    /\ container = "Delta"
    /\ probe.done = "no"
    /\ probe' = [probe EXCEPT
                   !.there = into_Delta(probe.value),
                   !.back = from_Delta(into_Delta(probe.value), T),
                   !.done = "T"]
    /\ UNCHANGED <<container, T, C, N, cap, room, memo, clock, ticks, base, accs,
                   cnts, acc_cnts, index, trace, acc, call, episode, folds>>

NextConvert ==
    \/ Call_Delta_T_Delta
    \/ Call_T_Delta_T
    \/ \E d \in Steps : Tick(d)
    \/ TraceNext

SpecConvert == InitConvert /\ [][NextConvert]_vars

\* Value::since and Value::since_and_update called directly: the mark is
\* base and the reading of the counter is clock, each any of the chosen
\* 64-bit values
InitSince ==
    /\ container = "Value"
    /\ T = U64
    /\ C = 0 /\ N = 0
    /\ clock \in Deltas
    /\ base \in Deltas
    /\ ticks = 0 /\ cap = 0 /\ room = 0 /\ memo = 0
    /\ probe = [op |-> "none", ret |-> <<>>, was |-> base]
    /\ accs = <<>> /\ cnts = <<>> /\ acc_cnts = <<>> /\ index = 0
    /\ trace = <<>> /\ acc = <<>> /\ folds = <<>>
    /\ call = [op |-> "new", index |-> 0, now |-> Zero(U64), hit |-> FALSE,
               was |-> <<>>]
    /\ episode = <<>>

\* let ret = now.since(mark)
Call_since ==
    /\ container = "Value"
    /\ probe.op = "none"
    /\ probe' = [op |-> "since", ret |-> since(clock, base), was |-> base]
    /\ UNCHANGED <<container, T, C, N, cap, room, memo, clock, ticks, base, accs,
                   cnts, acc_cnts, index, trace, acc, call, episode, folds>>

\* let ret = mark.since_and_update(now)
Call_since_and_update ==
    /\ container = "Value"
    /\ probe.op = "none"
    /\ probe' = [op |-> "since_and_update",
                 ret |-> since_and_update(base, clock).delta, was |-> base]
    /\ base' = since_and_update(base, clock).self
    /\ UNCHANGED <<container, T, C, N, cap, room, memo, clock, ticks, accs,
                   cnts, acc_cnts, index, trace, acc, call, episode, folds>>

NextSince == Call_since \/ Call_since_and_update

SpecSince == InitSince /\ [][NextSince]_vars

\* TraceCount::sat_inc called directly on chosen counts of every width
\* (container = "TraceCount"), and as the containers call it in the long runs
\* on one slot
InitCount ==
    \/ /\ container = "TraceCount"
       /\ C \in AllWidths
       /\ T = 0 /\ N = 0
       /\ clock = Zero(U64) /\ base = Zero(U64)
       /\ ticks = 0 /\ cap = 0 /\ room = 0 /\ memo = 0
       /\ probe \in [self : Values(C), ret : {<<>>}, done : {FALSE}]
       /\ accs = <<>> /\ cnts = <<>> /\ acc_cnts = <<>> /\ index = 0
       /\ trace = <<>> /\ acc = <<>> /\ folds = <<>>
       /\ call = Rec("new", 0, FALSE, <<>>)
       /\ episode = <<>>
    \/ InitLong

\* let mut ret = self; ret.sat_inc()
Call_sat_inc ==
    /\ container = "TraceCount"
    /\ ~probe.done
    /\ probe' = [probe EXCEPT !.ret = sat_inc(probe.self), !.done = TRUE]
    /\ UNCHANGED <<container, T, C, N, cap, room, memo, clock, ticks, base, accs,
                   cnts, acc_cnts, index, trace, acc, call, episode, folds>>

NextCount ==
    \/ Call_sat_inc
    \/ AccArrayNext
    \/ AccVecNext

SpecCount == InitCount /\ [][NextCount]_vars

\* An AccTrace on which, from some state on, acc() is called several times
\* in a row with no next() in between; probe keeps the accumulator and the
\* number of folds as they were when the row began
InitFold ==
    /\ container = "AccTrace"
    /\ T \in ValueWidths
    /\ C = 0
    /\ N \in Sizes
    /\ clock \in InitClocks
    /\ ticks = MaxTicks
    /\ cap = MaxFolds
    /\ room = 0
    /\ memo = 0
    /\ probe = <<>>
    /\ Constructed

\* the row of acc() calls begins here
Fold_begin ==
    /\ probe = <<>>
    /\ probe' = <<[acc |-> acc_trace, folds |-> folds[1]]>>
    /\ UNCHANGED <<container, T, C, N, cap, room, memo, clock, ticks, base,
                   accs, cnts, acc_cnts, index, trace, acc, call, episode,
                   folds>>

NextFold ==
    \/ \E d \in Steps : Tick(d)
    \/ probe = <<>> /\ AccTraceNext
    \/ Fold_begin
    \/ probe # <<>> /\ AccTraceNext /\ call'.op \in {"acc", "start"}

SpecFold == InitFold /\ [][NextFold]_vars

----------------------------------------------------------------------------
(* Exact (unbounded) arithmetic for stating the properties: a natural number *)
(* is a byte sequence of any length, compared and added without overflow     *)

Longest(a, b) == IF Len(a) >= Len(b) THEN Len(a) ELSE Len(b)

\* a + b, exactly
Plus(a, b) ==
    wrapping_add(cast(a, Longest(a, b) + 1), cast(b, Longest(a, b) + 1))

\* a < b
Less(a, b) ==
    Borrow(cast(a, Longest(a, b)), cast(b, Longest(a, b)))[Longest(a, b)] = 1

\* a = b as numbers
Same(a, b) == cast(a, Longest(a, b)) = cast(b, Longest(a, b))

\* min(x, uN::MAX) as an n-byte value
Clamp(x, n) == IF Less(MAX(n), x) THEN MAX(n) ELSE cast(x, n)

\* min(v + d, MAX) in the width of v
SaturatingSum(v, d) == Clamp(Plus(v, d), Len(v))

\* min(c + 1, MAX) in the width of c
SaturatingSucc(c) == Clamp(Plus(c, <<1>>), Len(c))

\* the ticks from the mark to the counter's reading now, modulo 2^64
SinceMark == wrapping_sub(clock, base)

----------------------------------------------------------------------------
(* AccArray: acc_n and acc_n_restart *)

\* C1: for every index < N, AccArray::acc_n(index) sets slot index's value to
\* min(value + ticks elapsed since the mark, MAX), increments slot index's
\* count (saturating at the count's maximum), and leaves the timer mark and
\* every other slot's value and count unchanged.
C1_AccNAddsElapsed ==
    [][\A i \in 0..(N - 1) :
         AccArray_acc_n(i) =>
           /\ accs' = [accs EXCEPT ![i + 1] = SaturatingSum(@, SinceMark)]
           /\ cnts' = [cnts EXCEPT ![i + 1] = SaturatingSucc(@)]
           /\ base' = base]_vars

\* C2: for every index >= N, AccArray::acc_n(index) and
\* AccArray::acc_n_restart(index) change no value, no count and not the mark.
C2_OutOfRangeNoOp ==
    [][\A i \in N..(N + 1) :
         (AccArray_acc_n(i) \/ AccArray_acc_n_restart(i)) =>
           UNCHANGED <<accs, cnts, base>>]_vars

\* C2 witness: an out-of-range acc_n_restart has been made on an array that
\* holds a folded slot and whose mark is not the counter's present reading.
C2_Witness ==
    /\ container = "AccArray"
    /\ call.op = "acc_n_restart" /\ ~call.hit /\ call.index >= N
    /\ \E i \in 1..N : cnts[i] # Zero(C)
    /\ base # clock

----------------------------------------------------------------------------
(* AccArray: restart chains *)

\* the sum of the first k values of a sequence of values, exactly
RECURSIVE Total(_, _)
Total(s, k) == IF k = 0 THEN <<0>> ELSE Plus(Total(s, k - 1), s[k])

\* the episode is start() followed by in-range acc_n_restart calls only, each
\* into a slot not folded into by anything else since the array was created
\* or cleared
RestartChain ==
    /\ container = "AccArray"
    /\ episode # <<>> /\ episode # Overflow
    /\ Len(episode) >= 2
    /\ episode[1].op = "start"
    /\ \A k \in 2..Len(episode) :
         /\ episode[k].op = "acc_n_restart" /\ episode[k].hit
         /\ folds[episode[k].index + 1] = 1

\* the ticks between call k-1 and call k of the episode
Interval(k) == since(episode[k].now, episode[k - 1].now)

\* the value of the slot addressed by call k of the episode
ChainValue(k) == accs[episode[k].index + 1]

\* each slot of the chain holds its own interval and a count of one, the
\* values sum to the ticks from start() to the last call, and the mark is
\* the reading of the last call
ChainIsExact ==
    /\ \A k \in 2..Len(episode) :
         /\ Same(ChainValue(k), Interval(k))
         /\ cnts[episode[k].index + 1] = Lit(1, C)
    /\ Same(Total([k \in 1..(Len(episode) - 1) |-> ChainValue(k + 1)],
                  Len(episode) - 1),
            since(episode[Len(episode)].now, episode[1].now))
    /\ base = episode[Len(episode)].now

\* x is representable in n bytes
Fits(x, n) == Same(cast(x, n), x)

\* C3 as stated: after start(), in-range acc_n_restart calls into fresh slots
\* leave in each slot exactly the ticks elapsed since the previous call, with
\* count 1; the values sum to the ticks elapsed from start() to the last call.
C3_ChainExact == RestartChain => ChainIsExact

\* C3 as amended: the same, provided every interval is representable in the
\* value type T (always so for u64).
C3_ChainExactWhenFits ==
    (RestartChain /\ \A k \in 2..Len(episode) : Fits(Interval(k), T))
        => ChainIsExact

\* C3 witness: start(), acc_n_restart(0), acc_n_restart(1), acc_n_restart(2)
\* on a fresh 3-slot array, with time passing before each call
C3_Witness ==
    /\ RestartChain
    /\ N = 3 /\ Len(episode) = 4
    /\ \A k \in 2..4 : /\ episode[k].index = k - 2
                       /\ Interval(k) # Zero(U64)
                       /\ Fits(Interval(k), T)
    /\ cnts = [i \in 1..3 |-> Lit(1, C)]

----------------------------------------------------------------------------
(* AccVec: out-of-range indices *)

\* C4: AccVec::acc_n(index) with index >= the sequence length changes no slot,
\* not the length, not the cursor and not the timer mark.
C4_VecAccNOutOfRange ==
    [][\A i \in Len(acc_cnts)..(Len(acc_cnts) + 1) :
         AccVec_acc_n(i) => UNCHANGED <<acc_cnts, index, base>>]_vars

\* C4 witness: an out-of-range acc_n has been made on an AccVec with a folded
\* slot, an advanced cursor and a mark that is not the counter's reading
C4_Witness ==
    /\ container = "AccVec"
    /\ call.op = "acc_n" /\ ~call.hit /\ call.index >= Len(acc_cnts)
    /\ Len(acc_cnts) > 0 /\ index > 0
    /\ acc_cnts[1][2] # Zero(C)
    /\ base # clock

\* C5: AccVec::acc_n_restart(index) with index >= the sequence length changes
\* no slot, not the length and not the cursor, and sets the mark to the
\* counter's reading; an in-range acc_n_restart(0) that follows it folds into
\* slot 0 the ticks elapsed since that out-of-range call.
C5_VecRestartOutOfRange ==
    [][/\ \A i \in Len(acc_cnts)..(Len(acc_cnts) + 1) :
            AccVec_acc_n_restart(i) =>
              UNCHANGED <<acc_cnts, index>> /\ base' = clock
       /\ ( /\ container = "AccVec"
            /\ call.op = "acc_n_restart" /\ ~call.hit
            /\ Len(acc_cnts) > 0
            /\ AccVec_acc_n_restart(0) )
          => acc_cnts'[1][1] = sat_add(acc_cnts[1][1], since(clock, call.now))
      ]_vars

\* C5 witness: start(), time passes, acc_n_restart(len), time passes,
\* acc_n_restart(0) into a fresh slot: it holds the ticks since the
\* out-of-range call, which are not the ticks since start()
C5_Witness ==
    /\ container = "AccVec"
    /\ Len(episode) = 3
    /\ episode[1].op = "start"
    /\ episode[2].op = "acc_n_restart" /\ ~episode[2].hit
    /\ episode[2].index = Len(acc_cnts)
    /\ episode[3].op = "acc_n_restart" /\ episode[3].hit
    /\ episode[3].index = 0
    /\ episode[2].now # episode[1].now
    /\ episode[3].now # episode[2].now
    /\ folds[1] = 1
    /\ Same(acc_cnts[1][1], since(episode[3].now, episode[2].now))
    /\ ~Same(acc_cnts[1][1], since(episode[3].now, episode[1].now))

----------------------------------------------------------------------------
(* Saturation *)

\* C6: for every unsigned width, every value v and every 64-bit delta d,
\* v.sat_add(d) is min(v + d, MAX); it is never less than v.
C6_SatAddIsMin ==
    (container = "TraceValue" /\ probe.done) =>
        /\ probe.ret = SaturatingSum(probe.self, probe.other)
        /\ ~Less(probe.ret, probe.self)

\* C7: when a slot of an AccArray holds its type's maximum, an in-range acc_n
\* or acc_n_restart with a positive elapsed delta leaves the value at the
\* maximum and increments the count (saturating at the count's maximum).
C7_CeilingKeepsValue ==
    [][\A i \in 0..(N - 1) :
         ( /\ AccArray_acc_n(i) \/ AccArray_acc_n_restart(i)
           /\ accs[i + 1] = MAX(T)
           /\ SinceMark # Zero(U64) )
         => /\ accs'[i + 1] = MAX(T)
            /\ cnts'[i + 1] = SaturatingSucc(cnts[i + 1])]_vars

\* C7 witness: acc_n has folded a positive delta into a slot that already
\* held the maximum, and the count went from 1 to 2
C7_Witness ==
    /\ container = "AccArray"
    /\ call.op = "acc_n" /\ call.hit
    /\ call.was = MAX(T)
    /\ since(call.now, base) # Zero(U64)
    /\ accs[call.index + 1] = MAX(T)
    /\ cnts[call.index + 1] = Lit(2, C)

----------------------------------------------------------------------------
(* Counts *)

\* the slots of the container as <<value, count>> pairs
Slots ==
    IF container = "AccArray" THEN [i \in 1..N |-> <<accs[i], cnts[i]>>]
    ELSE acc_cnts

HasSlots == container \in {"AccArray", "AccVec"}

\* C8 as stated: each slot's count equals exactly the number of times the slot
\* has been folded into since the container was created or last cleared.
C8_CountIsFolds ==
    HasSlots => \A i \in 1..Len(Slots) : Same(Slots[i][2], Lit(folds[i], 2))

\* C8 as amended: for an unsigned integer count type, each slot's count is the
\* smaller of that number of folds and the count type's maximum.
C8_CountIsFoldsUpToMax ==
    HasSlots =>
        \A i \in 1..Len(Slots) : Slots[i][2] = Clamp(Lit(folds[i], 2), C)

\* C8 witness: a slot folded into 256 times holds the count 255 = u8::MAX
C8_Witness ==
    /\ HasSlots
    /\ Len(Slots) > 0
    /\ folds[1] = 256
    /\ Slots[1][2] = MAX(C)

----------------------------------------------------------------------------
(* clear() *)

\* C9: after clear(), AccArray accs() and cnts() are all zero; AccVec
\* acc_cnts() and all_acc_cnts() are empty and the cursor is 0; Trace trace()
\* is all zero and the step cursor is 0; AccTrace last_trace() and acc_trace()
\* are all zero.
C9_ClearGivesDefault ==
    call.op = "clear" =>
        CASE container = "AccArray" ->
                 /\ accs = [i \in 1..N |-> Zero(T)]
                 /\ cnts = [i \in 1..N |-> Zero(C)]
          [] container = "AccVec" ->
                 /\ AccVec_acc_cnts = <<>>
                 /\ all_acc_cnts = <<>>
                 /\ index = 0
          [] container = "Trace" ->
                 /\ Trace_trace = [i \in 1..N |-> Zero(T)]
                 /\ index = 0
          [] container = "AccTrace" ->
                 /\ last_trace = [i \in 1..N |-> Zero(T)]
                 /\ acc_trace = [i \in 1..N |-> Zero(T)]
                 /\ index = 0
          [] OTHER -> TRUE

\* C9 witness: an AccTrace whose accumulator held a nonzero entry has been
\* cleared
C9_Witness ==
    /\ call.op = "clear"
    /\ container = "AccTrace"
    /\ call.was # Zero(T)
    /\ acc_trace[1] = Zero(T)
    /\ last_trace[1] = Zero(T)

\* C10: in an AccVec the cursor never exceeds the sequence length, so the
\* slice [0, cursor) of acc_cnts() is within bounds.
C10_CursorWithinLength ==
    container = "AccVec" => index <= Len(acc_cnts)

\* C10 witness: a push has appended a slot to an AccVec that once was
\* cleared or created empty, and the cursor is at the end
C10_Witness ==
    /\ container = "AccVec"
    /\ call.op \in {"acc_push", "acc_push_restart"}
    /\ index = Len(acc_cnts)
    /\ index = 2

----------------------------------------------------------------------------
(* AccVec: pushes *)

Pushes == {"acc_push", "acc_push_restart"}

\* the calls since the last start() are remembered and are pushes only
PushEpisode ==
    /\ container = "AccVec"
    /\ episode # <<>> /\ episode # Overflow
    /\ episode[1].op = "start"
    /\ \A k \in 2..Len(episode) : episode[k].op \in Pushes

\* C11: after start() followed by exactly m acc_push / acc_push_restart calls
\* (whatever came before the start()), acc_cnts() has length m and
\* all_acc_cnts() has length at least m; a start() sets the cursor to 0,
\* empties acc_cnts() and leaves all_acc_cnts() as it was.
C11_PrefixLaw ==
    [][/\ PushEpisode' =>
            /\ Len(AccVec_acc_cnts') = Len(episode') - 1
            /\ Len(all_acc_cnts') >= Len(episode') - 1
       /\ AccVec_start =>
            /\ index' = 0
            /\ AccVec_acc_cnts' = <<>>
            /\ all_acc_cnts' = all_acc_cnts]_vars

\* C11 witness: in an AccVec whose slot 0 was folded into in an earlier
\* episode, a start() has been followed by acc_push, acc_push_restart and a
\* third push
C11_Witness ==
    /\ PushEpisode
    /\ Len(episode) = 4
    /\ episode[2].op = "acc_push" /\ episode[3].op = "acc_push_restart"
    /\ folds[1] >= 2
    /\ Len(AccVec_acc_cnts) = 3

\* C12: acc_push() with cursor < length folds the ticks elapsed since the mark
\* into slot cursor and increments its count, as acc_n(cursor) does, leaves
\* the mark, advances the cursor by one and returns the old cursor; with
\* cursor = length it appends the slot (elapsed folded into zero, count one),
\* leaves the mark, sets the cursor to length + 1 and returns the old length.
\* The k-th push after a start() returns k - 1.
C12_PushFoldsOrAppends ==
    [][/\ AccVec_acc_push =>
            /\ base' = base
            /\ IF index < Len(acc_cnts)
               THEN /\ acc_cnts' = [acc_cnts EXCEPT ![index + 1] =
                                      <<sat_add(@[1], SinceMark),
                                        SaturatingSucc(@[2])>>]
                    /\ index' = index + 1
                    /\ call'.index = index
               ELSE /\ index = Len(acc_cnts)
                    /\ acc_cnts' = Append(acc_cnts, <<sat_add(Zero(T), SinceMark),
                                                      Lit(1, C)>>)
                    /\ index' = Len(acc_cnts) + 1
                    /\ call'.index = Len(acc_cnts)
       /\ PushEpisode' =>
            \A k \in 2..Len(episode') : episode'[k].index = k - 2]_vars

\* C12 witness: after a start(), with time passed since, a first acc_push()
\* has folded into the existing slot 0 and a second one has appended slot 1
C12_Witness ==
    /\ PushEpisode
    /\ Len(episode) = 3
    /\ episode[2].op = "acc_push" /\ episode[2].was # <<>>
    /\ episode[3].op = "acc_push" /\ episode[3].was = <<>>
    /\ episode[3].index = 1
    /\ episode[2].now # episode[1].now
    /\ Len(all_acc_cnts) = 2 /\ index = 2

\* the largest of the first k entries of a plan
RECURSIVE Most(_, _)
Most(p, k) ==
    IF k = 0 THEN 0
    ELSE IF p[k] > Most(p, k - 1) THEN p[k] ELSE Most(p, k - 1)

\* the first k episodes of the plan are complete and no other is begun
Completed(k) == Pushed = PlanSum(k) /\ call.op # "start"

\* C13: starting from an empty AccVec, after E episodes of start() followed
\* by p_e calls of acc_push_restart(), all_acc_cnts() has length max p_e, the
\* count of slot i is the number of episodes with p_e > i, and acc_cnts() has
\* length p_E.
C13_EpisodesAccumulate ==
    container = "AccVec" =>
      \A k \in 1..Len(probe) :
        Completed(k) =>
          /\ Len(all_acc_cnts) = Most(probe, k)
          /\ \A i \in 0..(Len(all_acc_cnts) - 1) :
               Same(all_acc_cnts[i + 1][2],
                    Lit(Cardinality({e \in 1..k : probe[e] > i}), C))
          /\ Len(AccVec_acc_cnts) = probe[k]

\* C13 witness: three episodes pushing 2, 1 and 2 times have run, with time
\* passing: the counts are 3 and 2
C13_Witness ==
    /\ container = "AccVec"
    /\ probe = <<2, 1, 2>>
    /\ Completed(3)
    /\ ticks = 0
    /\ all_acc_cnts[1][2] = Lit(3, C)
    /\ all_acc_cnts[2][2] = Lit(2, C)

----------------------------------------------------------------------------
(* AccVec: what acc_cnts() returns *)

\* the calls since the last start() are remembered
Remembered ==
    /\ episode # <<>> /\ episode # Overflow
    /\ episode[1].op = "start"

\* the indices of the slots folded into since the last start()
Touched == { episode[k].index : k \in { j \in 2..Len(episode) : episode[j].hit } }

\* the indices of the slots folded into by a push since the last start()
TouchedByPush ==
    { episode[k].index : k \in { j \in 2..Len(episode) : episode[j].op \in Pushes } }

\* C14 as stated: a slot has been folded into since the last start() if and
\* only if its index is below the cursor, also when in-range acc_n and
\* acc_n_restart calls are mixed with the pushes.
C14_PrefixIsTouched ==
    (container = "AccVec" /\ Remembered) =>
        \A i \in 0..(Len(all_acc_cnts) - 1) : i \in Touched <=> i < index

\* C14 as amended: a slot has been folded into by acc_push or acc_push_restart
\* since the last start() if and only if its index is below the cursor.
C14_PrefixIsPushed ==
    (container = "AccVec" /\ Remembered) =>
        \A i \in 0..(Len(all_acc_cnts) - 1) : i \in TouchedByPush <=> i < index

\* C14 witness: since the last start() a push has folded into slot 0 and an
\* acc_n has folded into a slot at or beyond the cursor
C14_Witness ==
    /\ container = "AccVec" /\ Remembered
    /\ index >= 1
    /\ 0 \in TouchedByPush
    /\ \E k \in 2..Len(episode) :
         /\ episode[k].op = "acc_n" /\ episode[k].hit
         /\ episode[k].index >= index

----------------------------------------------------------------------------
(* Trace: steps *)

\* the calls since the last start() are remembered and are next() calls that
\* found room in the trace
StepEpisode ==
    /\ container = "Trace"
    /\ Remembered
    /\ \A k \in 2..Len(episode) : episode[k].op = "next" /\ episode[k].hit

\* the step cursor and the mark after the steps of the episode
StepsAreCounted ==
    /\ index = Len(episode) - 1
    /\ base = episode[Len(episode)].now

\* C15 as stated: after start() and k <= N calls of next(), trace()[i] holds
\* the ticks elapsed between the calls before and at step i, the step cursor
\* is k and the mark is the reading taken by the last call.
C15_StepDeltas ==
    StepEpisode =>
        /\ \A k \in 2..Len(episode) : Same(Trace_trace[k - 1], Interval(k))
        /\ StepsAreCounted

\* C15 as amended: the same, for the steps whose ticks are representable in
\* the value type T (all of them for u64).
C15_StepDeltasWhenFit ==
    StepEpisode =>
        /\ \A k \in 2..Len(episode) :
             Fits(Interval(k), T) => Same(Trace_trace[k - 1], Interval(k))
        /\ StepsAreCounted

\* C15 witness: start() and three next() calls on a 3-step trace, with time
\* passing before each
C15_Witness ==
    /\ StepEpisode
    /\ Len(episode) = 4
    /\ \A k \in 2..4 : Interval(k) # Zero(U64) /\ Fits(Interval(k), T)
    /\ Same(Trace_trace[3], Lit(200, U64))

\* this step is a call of next() on the Trace or AccTrace
NextCalled ==
    /\ container \in {"Trace", "AccTrace"}
    /\ call' = Rec("next", index, index < N, Stored)
    /\ ticks' = ticks

\* C16: once the step cursor equals N, a next() on a Trace or an AccTrace
\* leaves the trace array, the step cursor, the timer mark and (AccTrace) the
\* accumulator unchanged.
C16_FullTraceNoOp ==
    [][(NextCalled /\ index = N) => UNCHANGED <<trace, index, base, acc>>]_vars

\* C16 witness: next() has been called on a full 3-step AccTrace whose
\* accumulator is not zero, some time after the last step
C16_Witness ==
    /\ container = "AccTrace" /\ N = 3
    /\ call.op = "next" /\ ~call.hit
    /\ index = N
    /\ acc_trace[1] # Zero(T)
    /\ call.now # base

\* C17: after start() followed by exactly k <= N calls of next(), whatever
\* the Trace did before, the entries trace()[k..N) all hold the default
\* (zero) value.
C17_TailIsDefault ==
    StepEpisode =>
        \A i \in Len(episode)..N : Trace_trace[i] = Zero(T)

\* this step is a call of acc() on the AccTrace
AccCalled ==
    /\ container = "AccTrace"
    /\ call' = Rec("acc", 0, TRUE, <<>>)
    /\ folds' # folds

\* C18: AccTrace::acc() sets acc_trace()[i], for every position i, to the
\* saturating sum of its previous value and last_trace()[i]: pinned at the
\* maximum of the representation on overflow, never wrapped.
C18_AccSaturates ==
    [][AccCalled =>
        \A i \in 1..N : acc_trace'[i] = SaturatingSum(acc_trace[i], last_trace[i])]_vars

\* C19: start() and next() leave every entry of the accumulator of an AccTrace
\* unchanged, in every state: only acc() and clear() change acc_trace().
C19_OnlyAccChangesAcc ==
    [][(container = "AccTrace" /\ call'.op \in {"start", "next"})
          => acc_trace' = acc_trace]_vars

\* C19 witness: a step has been stored, some time after a start(), in an
\* AccTrace whose accumulator holds an earlier fold
C19_Witness ==
    /\ container = "AccTrace"
    /\ call.op = "next" /\ call.hit
    /\ folds[1] > 0
    /\ acc_trace[1] # Zero(T)
    /\ last_trace[call.index + 1] # Zero(T)
    /\ last_trace # acc_trace

\* both copies of the pair have made their call
PairDone == Len(probe) = 2 /\ call.op = "acc_n_restart"

\* C20: of two copies of a started AccArray or AccVec that read the same
\* counter value, one calling acc_n(i) and the other acc_n_restart(i) for
\* an index in range, every slot ends with the same value and the same count
\* in both; the mark of the first is unchanged and the mark of the second is
\* the reading.
C20_RestartEquivalence ==
    PairDone =>
        /\ accs = probe[2].accs
        /\ cnts = probe[2].cnts
        /\ all_acc_cnts = probe[2].acc_cnts
        /\ index = probe[2].index
        /\ probe[2].base = probe[1].base
        /\ base = call.now
        /\ call.now = probe[2].call.now

\* C20 witness: both calls have been made on slot 1 of an AccVec of two
\* slots, some time after its start(), and the two marks differ
C20_Witness ==
    /\ PairDone
    /\ container = "AccVec"
    /\ call.hit /\ call.index = 1 /\ probe[2].call.index = 1
    /\ Held(1) # call.was
    /\ probe[2].base # base

\* every slot of a sequence of slots holds the unit value and the unit count
AllUnit(slots) == \A i \in 1..Len(slots) : slots[i] = <<Zero(0), Zero(0)>>

\* C21: a container with value type () and count type (), run beside a
\* container of integers on the same calls and readings, has after every call
\* the same mark, the same length and cursor, the same index returned and the
\* same in-range decision, and all its values and counts stay the unit value.
C21_UnitIsNoOp ==
    /\ (probe # <<>> /\ T = 0) => AllUnit(Twin_slots)
    /\ Twin_done =>
          /\ probe[1].T = 0 /\ probe[1].C = 0
          /\ probe[1].state.base = base
          /\ Len(probe[1].state.acc_cnts) = Len(acc_cnts)
          /\ Len(probe[1].state.accs) = Len(accs)
          /\ probe[1].state.index = index
          /\ probe[1].state.call.op = call.op
          /\ probe[1].state.call.index = call.index
          /\ probe[1].state.call.hit = call.hit
          /\ probe[1].state.call.now = call.now

\* C21 witness: both AccVecs have pushed a second slot with a restart, some
\* time after the last mark; the integers hold ticks and counts
C21_Witness ==
    /\ Twin_done
    /\ container = "AccVec"
    /\ call.op = "acc_push_restart" /\ call.index = 1
    /\ Len(probe[1].state.acc_cnts) = 2
    /\ acc_cnts[2][1] # Zero(T) /\ acc_cnts[2][2] = Lit(1, C)
    /\ probe[1].state.base # Zero(U64)

\* C22: an AccArray of N slots and an AccVec made by with_capacity(N), given
\* the same start(), acc_n(i) and acc_n_restart(i) calls with every i < N at
\* the same readings, agree after every call: slot j of the array equals
\* all_acc_cnts()[j] of the vector for all j < N, and the marks are equal.
C22_KindsAgree ==
    Twin_done =>
        /\ container = "AccArray" /\ probe[1].container = "AccVec"
        /\ Len(probe[1].state.acc_cnts) = N
        /\ \A j \in 1..N : <<accs[j], cnts[j]>> = probe[1].state.acc_cnts[j]
        /\ base = probe[1].state.base

\* C22 witness: both have folded into slot 0 and then, with a restart, into
\* slot 2 of three, with time passing before each call
C22_Witness ==
    /\ Twin_done
    /\ N = 3
    /\ call.op = "acc_n_restart" /\ call.index = 2
    /\ accs[1] # Zero(T) /\ cnts[1] = Lit(1, C)
    /\ accs[3] # Zero(T) /\ accs[3] # accs[1]
    /\ base = clock

\* the calls made on the AccTimer since default/clear are all remembered
TimerLog ==
    /\ container = "AccTimer"
    /\ episode # Overflow

\* the reading taken by the most recent start() before call k of the log
\* (the default mark when there is none since default/clear)
RECURSIVE MarkBefore(_)
MarkBefore(k) ==
    IF k <= 1 THEN Zero(U64)
    ELSE IF episode[k - 1].op = "start" THEN episode[k - 1].now
    ELSE MarkBefore(k - 1)

\* the ticks from the most recent start() to call k of the log
Measured(k) == since(episode[k].now, MarkBefore(k))

\* the sum, exactly, of the ticks measured by the stop() calls among the
\* first k calls of the log
RECURSIVE StopSum(_)
StopSum(k) ==
    IF k = 0 THEN <<0>>
    ELSE IF episode[k].op = "stop"
         THEN CHOOSE s \in {Plus(p, m) : p \in {StopSum(k - 1)},
                                          m \in {Measured(k)}} : TRUE
    ELSE StopSum(k - 1)

\* C23: each stop() of an AccTimer sets last_delta() to the ticks elapsed
\* since the most recent start() and leaves the mark where it was; after any
\* start()/stop() calls since default/clear, acc_value() is the sum of the
\* last_delta() values of every stop(), saturated at the 64-bit maximum.
C23_TimerAccumulates ==
    TimerLog =>
        /\ base = MarkBefore(Len(episode) + 1)
        /\ \A s \in {StopSum(Len(episode))} : acc_value = Clamp(s, U64)
        /\ episode[Len(episode)].op = "stop" =>
               last_delta = Measured(Len(episode))

\* C23 witness: two stop() calls have measured different, non-zero times
\* from the same start()
C23_Witness ==
    /\ TimerLog
    /\ Len(episode) = 4
    /\ episode[2].op = "start"
    /\ episode[3].op = "stop" /\ episode[4].op = "stop"
    /\ Measured(3) # Zero(U64)
    /\ Measured(4) # Measured(3)
    /\ \A s \in {StopSum(4)} : ~ Less(MAX(U64), s)

\* the round trip made from a Delta / from a T value
RoundTripOfDelta == container = "Delta" /\ probe.done = "Delta"
RoundTripOfValue == container = "Delta" /\ probe.done = "T"

\* this step is a next() that stores a step in the Trace
StepStored == NextCalled /\ container = "Trace" /\ index < N

\* C24 as stated: for every unsigned integer width of T, a Delta converted to
\* T and back is the same Delta, a T value converted to Delta and back is the
\* same T value, and the value Trace::next() stores in trace[step] equals the
\* tick delta computed.
C24_Lossless ==
    /\ [](RoundTripOfDelta => probe.back = probe.delta)
    /\ [](RoundTripOfValue => probe.back = probe.value)
    /\ [][StepStored => Same(trace'[index + 1], SinceMark)]_vars

\* C24 as amended: the round trip of a Delta is the same Delta provided the
\* Delta is representable in T, the round trip of a T value is the same value
\* provided it is representable in 64 bits, and Trace::next() stores the
\* delta computed provided it is representable in T (all are so for u64).
C24_LosslessWhenFits ==
    /\ []((RoundTripOfDelta /\ Fits(probe.delta, T))
            => probe.back = probe.delta /\ Same(probe.there, probe.delta))
    /\ []((RoundTripOfValue /\ Fits(probe.value, U64))
            => probe.back = probe.value /\ Same(probe.there, probe.value))
    /\ [][(StepStored /\ Fits(SinceMark, T))
            => Same(trace'[index + 1], SinceMark)]_vars

\* C24 witness: the Delta 65535 has been converted to a u16 and back
C24_Witness ==
    /\ RoundTripOfDelta
    /\ T = 2
    /\ probe.delta = Lit(65535, U64)
    /\ probe.there = MAX(2)
    /\ probe.back = probe.delta

\* d = (now - earlier) mod 2^64: earlier + d is now, or now + 2^64 when the
\* counter wrapped between the two readings
Modular(d, now, earlier) ==
    /\ Len(d) = U64
    /\ IF Less(now, earlier)
       THEN Same(Plus(earlier, d), Plus(now, <<0, 0, 0, 0, 0, 0, 0, 0, 1>>))
       ELSE Same(Plus(earlier, d), now)

\* C25: since(now, earlier) and since_and_update both return
\* (now - earlier) mod 2^64 for every pair of readings of the 64-bit counter,
\* also when now < earlier; since leaves the mark unchanged and
\* since_and_update leaves it equal to now.
C25_SinceIsModular ==
    /\ probe.op = "since" =>
          Modular(probe.ret, clock, probe.was) /\ base = probe.was
    /\ probe.op = "since_and_update" =>
          Modular(probe.ret, clock, probe.was) /\ base = clock

\* C25 witness: since_and_update has been called with the counter reading
\* 55 and the mark at 2^63
C25_Witness ==
    /\ probe.op = "since_and_update"
    /\ clock = Lit(55, U64)
    /\ probe.was = <<0, 0, 0, 0, 0, 0, 0, 128>>
    /\ probe.ret = <<55, 0, 0, 0, 0, 0, 0, 128>>
    /\ base = clock

\* sat_inc has been called on a count
IncCalled == container = "TraceCount" /\ probe.done

\* C26: for every unsigned integer count width, sat_inc adds exactly one to
\* a count below the maximum and leaves a count at the maximum where it is;
\* so between clears the count of a slot never decreases and, once above
\* zero, never returns to zero, however many folds are made.
C26_CountSaturates ==
    /\ [](IncCalled =>
            /\ Len(probe.ret) = C
            /\ IF probe.self = MAX(C) THEN probe.ret = MAX(C)
               ELSE Same(probe.ret, Plus(probe.self, <<1>>)))
    /\ [][(HasSlots /\ call'.op # "clear") =>
            \A i \in 1..Len(Slots) :
                /\ i <= Len(Slots')
                /\ ~ Less(Slots'[i][2], Slots[i][2])
                /\ Slots[i][2] # Zero(C) => Slots'[i][2] # Zero(C)]_vars

\* C26 witness: a slot with a u8 count has been folded into 257 times
C26_Witness ==
    /\ HasSlots
    /\ C = 1
    /\ call.hit
    /\ Len(Slots) = 1
    /\ folds[1] = LongFolds
    /\ Slots[1][2] = MAX(C)

\* C27: on an AccArray on which start() has not been called since it was
\* constructed or last cleared, an in-range acc_n(index) folds into the slot
\* the ticks elapsed since the moment of the construction or of the clear()
\* (here: an acc_n that is the first call after the construction or clear).
C27_MeasuresFromConstruction ==
    [][\A i \in 0..(N - 1) :
         (call.op \in {"new", "clear"} /\ AccArray_acc_n(i)) =>
            accs'[i + 1] = sat_add(accs[i + 1], since(clock, call.now))]_vars

\* C28: AccVec::clear(), like AccArray::clear(), resets the timer mark to its
\* default besides emptying the sequence and resetting the cursor to 0: after
\* clear() the mark does not depend on any start() or restart made before.
C28_VecClearResetsMark ==
    (container = "AccVec" /\ call.op = "clear") =>
        /\ all_acc_cnts = <<>>
        /\ index = 0
        /\ base = Zero(U64)

\* this step is a call of the AccVec whose recorded name is among ops
VecCalled(ops) ==
    /\ container = "AccVec"
    /\ call'.op \in ops
    /\ ticks' = ticks

\* C29: the length of an AccVec changes only by append and clear: start(),
\* acc_n(i) and acc_n_restart(i), for any i, leave it unchanged;
\* acc_push() and acc_push_restart() add exactly one when the cursor equals
\* the length and otherwise leave it unchanged; only clear() reduces it.
C29_LengthByAppendAndClear ==
    [][/\ VecCalled({"start", "acc_n", "acc_n_restart"}) =>
            Len(all_acc_cnts') = Len(all_acc_cnts)
       /\ VecCalled({"acc_push", "acc_push_restart"}) =>
            Len(all_acc_cnts') =
                IF index = Len(all_acc_cnts) THEN Len(all_acc_cnts) + 1
                ELSE Len(all_acc_cnts)
       /\ (container = "AccVec" /\ Len(all_acc_cnts') < Len(all_acc_cnts)) =>
            call'.op = "clear"]_vars

\* C29 witness: an AccVec made by with_capacity(2) has had an out-of-range
\* acc_n_restart and still has two slots
C29_Witness ==
    /\ container = "AccVec" /\ N = 2
    /\ call.op = "acc_n_restart" /\ ~call.hit
    /\ Len(all_acc_cnts) = 2
    /\ all_acc_cnts[1][2] # Zero(C)

\* this step is a call of start() on the Trace or AccTrace
StartCalled ==
    /\ container \in {"Trace", "AccTrace"}
    /\ call'.op = "start"
    /\ ticks' = ticks

\* C30: start() of a Trace or an AccTrace changes only the timer mark and
\* the step cursor: every entry of the trace array keeps its value, so the
\* entries not yet rewritten are those of an earlier episode.
C30_StartKeepsTrace ==
    [][StartCalled =>
          /\ Trace_trace' = Trace_trace
          /\ acc_trace' = acc_trace
          /\ index' = 0
          /\ base' = clock]_vars

\* C30 witness: start() has been called on a Trace of three steps that holds
\* a step of an earlier episode, and the mark has moved
C30_Witness ==
    /\ container = "Trace" /\ N = 3
    /\ call.op = "start"
    /\ index = 0
    /\ Trace_trace[1] # Zero(T)
    /\ base = clock /\ base # Zero(U64)

\* x added m times to a, exactly
RECURSIVE PlusTimes(_, _, _)
PlusTimes(a, x, m) ==
    IF m = 0 THEN a
    ELSE CHOOSE s \in {Plus(p, x) : p \in {PlusTimes(a, x, m - 1)}} : TRUE

\* C31: AccTrace::acc() adds (in the arithmetic of T, modulo 2^bits) every
\* one of the N stored trace entries to the accumulator, whatever the step
\* cursor is, and leaves the trace, the cursor and the mark unchanged; m
\* calls in a row with no next() in between add each entry m times.
C31_AccFoldsWholeTrace ==
    /\ [][AccCalled =>
            /\ \A i \in 1..N :
                 acc_trace'[i] = cast(Plus(acc_trace[i], last_trace[i]), T)
            /\ UNCHANGED <<trace, index, base>>]_vars
    /\ [](probe # <<>> =>
            \A i \in 1..N :
                acc_trace[i] = cast(PlusTimes(probe[1].acc[i], last_trace[i],
                                              folds[1] - probe[1].folds), T))

\* C31 witness: acc() has been called twice in a row on an AccTrace of three
\* steps whose cursor is back at 0 and whose second entry holds a step
C31_Witness ==
    /\ probe # <<>>
    /\ N = 3
    /\ call.op = "acc"
    /\ folds[1] - probe[1].folds = 2
    /\ index = 0
    /\ last_trace[2] # Zero(T)
    /\ acc_trace[2] # probe[1].acc[2]
    /\ acc_trace[2] # last_trace[2]

\* the Trace is idle: made or cleared, and nothing called since
Idle == container = "Trace" /\ call.op \in {"new", "clear"}

\* C32: after default construction or clear() and with no start(), the step
\* cursor of a Trace is 0 and next() does what it does in running(0): it
\* stores the delta against the default mark (as a T) in trace[0], sets the
\* mark to the reading and advances the cursor to 1; in every state each of
\* clear(), start() and next() can be called.
C32_IdleAcceptsNext ==
    /\ [](Idle => index = 0 /\ base = Zero(U64))
    /\ [][(Idle /\ NextCalled) =>
            /\ trace' = [trace EXCEPT ![1] = cast(since(clock, Zero(U64)), T)]
            /\ base' = clock
            /\ index' = 1
            /\ call'.hit]_vars
    /\ [](container = "Trace" =>
            /\ ENABLED (TraceNext /\ call'.op = "clear")
            /\ ENABLED (TraceNext /\ call'.op = "start")
            /\ ENABLED (TraceNext /\ call'.op = "next"))

\* C32 witness: one step has been stored by a next() on a Trace that has not
\* been started since it was made or cleared, some time after the run began
C32_Witness ==
    /\ container = "Trace"
    /\ Len(episode) = 0
    /\ call.op = "next" /\ call.hit /\ call.index = 0
    /\ index = 1
    /\ Trace_trace[1] = cast(clock, T)
    /\ Trace_trace[1] # Zero(T)
    /\ base = clock
    /\ ticks < ChainTicks

====
